---- MODULE Spec2Model ----
(***************************************************************************)
(* A model of the eno control loops:                                       *)
(*   - the synthesis concurrency limiter                                   *)
(*       (internal/controllers/flowcontrol/synthesis.go),                  *)
(*   - the life of a Composition's synthesis slots around it,              *)
(*   - the per-resource reconciler                                         *)
(*       (internal/controllers/reconciliation).                            *)
(* The controllers read Compositions and ResourceSlices through the        *)
(* manager's client, i.e. through an informer cache that lags the API      *)
(* server; writes go to the API server.                                    *)
(***************************************************************************)
EXTENDS Integers, Sequences, FiniteSets, TLC

\* ------------------------------------------------------------- bounds
NumComps == 2
MaxUpdates == 1
MaxLag == 2

Comps == 1..NumComps

\* The empty string of Synthesis.UUID.
NoUUID == 0

VARIABLES
    limit,      \* synthesisConcurrencyLimiter.limit
    comps,      \* the Compositions as the API server holds them
    cache,      \* the Compositions as the manager's informer cache holds them
    watch,      \* Composition watch events not yet delivered to the cache
    queued,     \* the limiter's single work item is in its queue
    requeue,    \* the scheduled requeue of the limiter's work item
    patchKind,  \* per resource: whether its desired state is a manifest or a JSON patch
    definingCRD, \* per resource: the resource of the synthesis that is the CRD of its kind
    reconcileInterval, \* per resource: resource.ReconcileInterval is set
    disableUpdates, \* per resource: resource.DisableUpdates
    drift,      \* per resource: the fields an outside change to its object alters
    openAPIModel, \* per resource: c.discovery.Get has an OpenAPI model for its kind
    kind,       \* per resource: the kind of its GVK
    lastError,  \* the last error a step of reconcileResource returned
    synthesisState, \* the Composition's CurrentSynthesis as the reconciler reads it
    orphan,     \* the Composition is annotated eno.azure.io/deletion-strategy=orphan
    compDeleting, \* the Composition is being deleted: every resource is Deleted()
    downstream, \* per resource: the object in the downstream cluster
    lastSeen,   \* per resource: the resource version ObserveVersion recorded
    status,     \* per resource: its ResourceState in the slice, as the API server holds it
    sliceCache, \* per resource: its ResourceState as the informer cache holds the slice
    writeBuffer, \* per resource: the coalesced StatusPatchFn not yet applied
    now,        \* the clock
    synGeneration,   \* the generation of the Synthesizer
    lastRolloutTime, \* Synthesizer.Status.LastRolloutTime
    observedSynGen,  \* per Composition: CurrentSynthesis.ObservedSynthesizerGeneration
    lastDispatch,    \* the time of the limiter's last accepted UUID patch
    attempts,   \* per Composition: CurrentSynthesis.Attempts
    failed,     \* per Composition: CurrentSynthesis.Failed
    pod,        \* per Composition: the pod of its current synthesis exists
    synthesizerFound,    \* per Composition: the Get of its Synthesizer succeeds
    inputsExist,         \* per Composition: comp.InputsExist(syn)
    inputsOutOfLockstep, \* per Composition: comp.InputsOutOfLockstep(syn)
    inputsMissing,       \* the waitingOnInputs gauge
    notInLockstepCount   \* the inputsNotInLockstep gauge

limiterVars == <<limit, comps, cache, watch, queued, requeue, lastDispatch>>

reconcilerVars ==
    <<patchKind, definingCRD, reconcileInterval, disableUpdates, drift, openAPIModel, kind,
      lastError, synthesisState, orphan, compDeleting, downstream, lastSeen, status,
      sliceCache, writeBuffer>>

rolloutVars == <<now, synGeneration, lastRolloutTime, observedSynGen>>

podVars == <<attempts, failed, pod>>

watchdogVars ==
    <<synthesizerFound, inputsExist, inputsOutOfLockstep, inputsMissing,
      notInLockstepCount>>

\* ------------------------------------------------------- data model
\* A synthesis slot of Composition.Status (apiv1.Synthesis); exists = FALSE is nil.
NoSynthesis ==
    [exists |-> FALSE, uuid |-> NoUUID, synthesized |-> FALSE, observedGen |-> 0]

PendingSynthesis(gen) ==
    [exists |-> TRUE, uuid |-> NoUUID, synthesized |-> FALSE, observedGen |-> gen]

NewComposition ==
    [generation |-> 1, current |-> NoSynthesis, previous |-> NoSynthesis]

\* ------------------------------------------- the concurrency limiter
\* Reconcile's classification loop over list.Items.
IsPending(comp) ==
    /\ comp.current.exists
    /\ ~comp.current.synthesized
    /\ comp.current.uuid = NoUUID

IsActive(comp) ==
    /\ comp.current.exists
    /\ ~comp.current.synthesized
    /\ comp.current.uuid # NoUUID

ActiveIn(list) == {c \in Comps : IsActive(list[c])}
PendingIn(list) == {c \in Comps : IsPending(list[c])}

\* The patch without its test operation.
TestNullSkipped(comp) == TRUE

\* The test operation of the JSON patch: {"op": "test", "path": ".../uuid", "value": nil}.
TestNull(comp) == comp.current.uuid = NoUUID

\* Whether the API server accepts the patch: the slot must be there for "add" to have
\* a parent, and the test operation must pass.
PatchApplies(comp) == comp.current.exists /\ TestNull(comp)

\* The add operation of the JSON patch: {"op": "add", "path": ".../uuid", "value": uuid}.
AddUUID(comp, uuid) == [comp EXCEPT !.current.uuid = uuid]

\* uuid.NewString(): a UUID no object holds. The limiter only tells an empty UUID from
\* a set one, so a UUID is kept as its number among the UUIDs given to its slot: the
\* first is 1, and one written over it would be 2.
NewUUID(comp) == comp.current.uuid + 1

\* A write of Composition c to the API server; the watch carries it to the informer.
WriteComposition(c, comp) ==
    /\ Len(watch) < MaxLag
    /\ comps' = [comps EXCEPT ![c] = comp]
    /\ watch' = Append(watch, <<c, comp>>)

\* The informer delivers the oldest undelivered event: the cache takes the object and
\* manager.SingleEventHandler() enqueues the limiter's single request.
Deliver ==
    /\ watch # <<>>
    /\ cache' = [cache EXCEPT ![Head(watch)[1]] = Head(watch)[2]]
    /\ watch' = Tail(watch)
    /\ queued' = TRUE
    /\ UNCHANGED <<limit, lastDispatch, comps, requeue>>
    /\ UNCHANGED <<reconcilerVars, rolloutVars, podVars, watchdogVars>>

\* What a Reconcile leaves scheduled: nothing (Result{}), Result{RequeueAfter:
\* c.cooldown}, or the controller runtime's rate-limited retry of a returned error.
\* The work queue holds one entry per request, so one scheduled requeue is kept.
NoRequeue == "none"
AfterCooldown == "afterCooldown"
RateLimited == "rateLimited"

\* The scheduled requeue comes due.
RequeueFires ==
    /\ requeue # NoRequeue
    /\ requeue' = NoRequeue
    /\ queued' = TRUE
    /\ UNCHANGED <<limit, lastDispatch, comps, cache, watch>>
    /\ UNCHANGED <<reconcilerVars, rolloutVars, podVars, watchdogVars>>

\* The informer's periodic resync hands every Composition to the event handler
\* again: the limiter's request is enqueued without any change.
Resync ==
    /\ ~queued
    /\ queued' = TRUE
    /\ UNCHANGED <<limit, lastDispatch, comps, cache, watch, requeue>>
    /\ UNCHANGED <<reconcilerVars, rolloutVars, podVars, watchdogVars>>

\* synthesisConcurrencyLimiter.cooldown, in ticks of the clock.
Cooldown == 2

\* The scheduled requeue comes due when its time has come: a requeue after the
\* cooldown not before the cooldown has passed since the patch that scheduled it.
RequeueFiresInTime ==
    /\ requeue = AfterCooldown => now - lastDispatch >= Cooldown
    /\ RequeueFires

\* Reconcile: active >= c.limit, "refusing to dispatch".
ReconcileRefuse ==
    /\ queued
    /\ Cardinality(ActiveIn(cache)) >= limit
    /\ queued' = FALSE
    /\ UNCHANGED <<limit, lastDispatch, comps, cache, watch, requeue>>
    /\ UNCHANGED <<reconcilerVars, rolloutVars, podVars, watchdogVars>>

\* Reconcile: len(pending) == 0, nothing to dispatch.
ReconcileNothing ==
    /\ queued
    /\ Cardinality(ActiveIn(cache)) < limit
    /\ PendingIn(cache) = {}
    /\ queued' = FALSE
    /\ UNCHANGED <<limit, lastDispatch, comps, cache, watch, requeue>>
    /\ UNCHANGED <<reconcilerVars, rolloutVars, podVars, watchdogVars>>

\* Reconcile: pending[rand.Intn(len(pending))] is patched; the patch is accepted.
ReconcileDispatch(n) ==
    /\ queued
    /\ Cardinality(ActiveIn(cache)) < limit
    /\ n \in PendingIn(cache)
    /\ PatchApplies(comps[n])
    /\ WriteComposition(n, AddUUID(comps[n], NewUUID(comps[n])))
    /\ queued' = FALSE
    /\ requeue' = AfterCooldown
    /\ lastDispatch' = now
    /\ UNCHANGED <<limit, cache>>
    /\ UNCHANGED <<reconcilerVars, rolloutVars, podVars, watchdogVars>>

\* Reconcile: the API server rejects the patch; the error is returned with an empty
\* Result, and the controller runtime retries the request with its rate limiter.
ReconcileConflict(n) ==
    /\ queued
    /\ Cardinality(ActiveIn(cache)) < limit
    /\ n \in PendingIn(cache)
    /\ ~PatchApplies(comps[n])
    /\ queued' = FALSE
    /\ requeue' = RateLimited
    /\ UNCHANGED <<limit, lastDispatch, comps, cache, watch>>
    /\ UNCHANGED <<reconcilerVars, rolloutVars, podVars, watchdogVars>>

Reconcile ==
    \/ ReconcileRefuse
    \/ ReconcileNothing
    \/ \E n \in Comps : ReconcileDispatch(n)
    \/ \E n \in Comps : ReconcileConflict(n)

\* ------------------------------------- the life of a synthesis slot
\* The number of updates the Compositions have had: each starts at generation 1.
RECURSIVE Updates(_)
Updates(S) ==
    IF S = {} THEN 0
    ELSE LET c == CHOOSE x \in S : TRUE
         IN (comps[c].generation - 1) + Updates(S \ {c})

\* The user updates the Composition's spec (comp.Spec.Inputs): a new generation.
UpdateComposition(c) ==
    /\ Updates(Comps) < MaxUpdates
    /\ WriteComposition(c, [comps[c] EXCEPT !.generation = @ + 1])
    /\ UNCHANGED <<limit, lastDispatch, cache, queued, requeue>>
    /\ UNCHANGED <<reconcilerVars, rolloutVars, podVars, watchdogVars>>

\* A swap that installs the new slot and forgets the synthesized current.
SwapForgetsCurrent(comp) ==
    [comp EXCEPT !.current = PendingSynthesis(comp.generation)]

\* A new synthesis is due: the slot swap. A synthesized current becomes previous, and
\* a pending slot (empty UUID) for the Composition's generation becomes current.
SwapStates(comp) ==
    [comp EXCEPT
        !.previous = IF comp.current.exists /\ comp.current.synthesized
                     THEN comp.current ELSE @,
        !.current = PendingSynthesis(comp.generation)]

\* A swap that waits for the current synthesis to be synthesized.
SynthesisIsDueOnceSynthesized(comp) ==
    \/ ~comp.current.exists
    \/ comp.current.observedGen # comp.generation /\ comp.current.synthesized

SynthesisIsDue(comp) ==
    \/ ~comp.current.exists
    \/ comp.current.observedGen # comp.generation

\* The new slot starts without attempts, and the pod of the superseded synthesis is
\* garbage collected.
NewSynthesis(c) ==
    /\ SynthesisIsDue(comps[c])
    /\ WriteComposition(c, SwapStates(comps[c]))
    /\ attempts' = [attempts EXCEPT ![c] = 0]
    /\ failed' = [failed EXCEPT ![c] = FALSE]
    /\ pod' = [pod EXCEPT ![c] = FALSE]
    /\ UNCHANGED <<limit, lastDispatch, cache, queued, requeue>>
    /\ UNCHANGED <<reconcilerVars, rolloutVars, watchdogVars>>

\* The pod of the current, active synthesis completes: its output is captured and
\* Synthesized is set. (A pod whose synthesis is no longer current is collected and
\* leaves the Composition as it is.)
PodSucceeds(c) ==
    /\ IsActive(comps[c])
    /\ WriteComposition(c, [comps[c] EXCEPT !.current.synthesized = TRUE])
    /\ UNCHANGED <<limit, lastDispatch, cache, queued, requeue>>
    /\ UNCHANGED <<reconcilerVars, rolloutVars, podVars, watchdogVars>>

\* ------------------------------------------------ the synthesizer pods
\* Config.MaxRestarts of minimalTestConfig.
MaxRestarts == 3

\* A pod controller that creates pods for a failed synthesis too.
RetriesWithoutEnd(c) == TRUE

\* A synthesis that has Failed gets no further pod.
MayRetry(c) == ~failed[c]

\* An active Composition without a pod: one is created.
CreatePod(c) ==
    /\ IsActive(comps[c])
    /\ ~pod[c]
    /\ MayRetry(c)
    /\ pod' = [pod EXCEPT ![c] = TRUE]
    /\ UNCHANGED <<attempts, failed>>
    /\ UNCHANGED <<limiterVars, reconcilerVars, rolloutVars, watchdogVars>>

\* The pod completes with success: as PodSucceeds, for a pod that exists.
PodCompletes(c) ==
    /\ pod[c]
    /\ ~failed[c]
    /\ IsActive(comps[c])
    /\ WriteComposition(c, [comps[c] EXCEPT !.current.synthesized = TRUE])
    /\ UNCHANGED <<limit, lastDispatch, cache, queued, requeue>>
    /\ UNCHANGED <<reconcilerVars, rolloutVars, podVars, watchdogVars>>

\* The pod fails or exceeds its deadline: Attempts is incremented in the Composition's
\* status; while Attempts <= MaxRestarts the pod is deleted, otherwise Failed is set
\* and the synthesis is abandoned.
PodFails(c) ==
    /\ pod[c]
    /\ ~failed[c]
    /\ IsActive(comps[c])
    /\ WriteComposition(c, comps[c])
    /\ attempts' = [attempts EXCEPT ![c] = @ + 1]
    /\ IF attempts[c] + 1 <= MaxRestarts
       THEN pod' = [pod EXCEPT ![c] = FALSE] /\ UNCHANGED failed
       ELSE failed' = [failed EXCEPT ![c] = TRUE] /\ UNCHANGED pod
    /\ UNCHANGED <<limit, lastDispatch, cache, queued, requeue>>
    /\ UNCHANGED <<reconcilerVars, rolloutVars, watchdogVars>>

\* The pod is removed by another hand (its node is drained).
PodGone(c) ==
    /\ pod[c]
    /\ pod' = [pod EXCEPT ![c] = FALSE]
    /\ UNCHANGED <<attempts, failed>>
    /\ UNCHANGED <<limiterVars, reconcilerVars, rolloutVars, watchdogVars>>

\* No synthesis has had a pod.
NoPods ==
    /\ attempts = [c \in Comps |-> 0]
    /\ failed = [c \in Comps |-> FALSE]
    /\ pod = [c \in Comps |-> FALSE]

\* --------------------------------------------- the resource reconciler
\* The resources of the Composition's current synthesis. As in TestReadinessGroups,
\* every resource has a readiness group of its own: test-obj-0 has the default group
\* 0, test-obj-1 the group 2, test-obj-2 the group 4.
NumResources == 2
MaxTime == 1

Resources == 1..NumResources

ReadinessGroup(r) == 2 * (r - 1)

\* resource.Patch: nil for a manifest, set for a JSON patch.
Manifest == "manifest"
JSONPatch == "jsonPatch"

HasPatch(r) == patchKind[r] = JSONPatch

\* GetDefiningCRD: the resource that is the CRD of the resource's kind; NoCRD when the
\* synthesis holds none.
NoCRD == 0

\* comp.Status.CurrentSynthesis: nil, synthesized, or Failed().
NoCurrentSynthesis == "nil"
Synthesized == "synthesized"
SynthesisFailed == "failed"

\* A reconciler that goes on with a synthesis that has Failed.
DropsOnlyNil == synthesisState = NoCurrentSynthesis

\* comp.Status.CurrentSynthesis == nil || comp.Status.CurrentSynthesis.Failed():
\* "nothing to do".
Dropped == synthesisState # Synthesized

\* A reconciler that does not look at the deletion-strategy annotation.
OrphanIgnored == FALSE

\* comp.Annotations["eno.azure.io/deletion-strategy"] == "orphan"
Orphaned == orphan

\* time.Second, in ticks of the clock.
Second == 1

Deleted(r) == compDeleting

\* The downstream object: absent (a Get answers NotFound, current is nil), as the
\* desired state has it, differing from the desired state, or with a deletion
\* timestamp (deleted, and kept by a finalizer).
NoObject == "absent"
InSync == "inSync"
Drifted == "drifted"
Terminating == "terminating"

\* metav1.Time values; NoTime is a nil *metav1.Time.
NoTime == 0
Times == 1..MaxTime

\* apiv1.ResourceState of a resource in its slice; exists = FALSE is a nil state.
NoState == [exists |-> FALSE, deleted |-> FALSE, ready |-> NoTime, reconciled |-> FALSE]

ResourceState(deleted, ready) ==
    [exists |-> TRUE, deleted |-> deleted, ready |-> ready, reconciled |-> TRUE]

\* What the model keeps of a ResourceState in the informer cache: the fields Reconcile
\* reads from it (Ready, Reconciled and whether it is nil).
Cached(rs) == [rs EXCEPT !.deleted = FALSE]

\* Every apiv1.ResourceState a slice can hold.
ResourceStates ==
    {NoState} \cup
    [exists : {TRUE}, deleted : BOOLEAN, ready : {NoTime} \cup Times, reconciled : BOOLEAN]

\* A status function that takes an equal Deleted and Ready for no change, whatever
\* Reconciled is.
PatchIgnoresReconciled(deleted, ready, rs) ==
    IF rs.exists /\ rs.deleted = deleted /\ rs.ready = ready
    THEN rs
    ELSE ResourceState(deleted, ready)

\* patchResourceState(deleted, ready), applied to the state rs: a nil result (no
\* change) leaves rs as it is.
PatchResourceState(deleted, ready, rs) ==
    IF rs.exists /\ rs.deleted = deleted /\ rs.reconciled /\ rs.ready = ready
    THEN rs
    ELSE ResourceState(deleted, ready)

\* The write buffer's entry of a resource: no function, or the function
\* patchResourceState(deleted, ready) of the latest PatchStatusAsync.
NoPatchFn == [queued |-> FALSE, deleted |-> FALSE, ready |-> NoTime]

PatchFn(deleted, ready) == [queued |-> TRUE, deleted |-> deleted, ready |-> ready]

\* The resource version ObserveVersion recorded, kept by its relation to the object's
\* present resource version (every write downstream gives the object a new one): the
\* empty string, the present version, or a version the object no longer has.
NoVersion == ""
PresentVersion == "present"
PastVersion == "past"

HasBeenSeen(r) == lastSeen[r] # NoVersion

MatchesLastSeen(r) == lastSeen[r] = PresentVersion

\* A write downstream by another hand leaves a recorded version behind.
Outdated(version) == IF version = PresentVersion THEN PastVersion ELSE version

\* getCurrent: the object read (NoObject for nil) and hasChanged. NotFound and a
\* matching resource version both answer (nil, false).
GetCurrent(r) ==
    IF HasBeenSeen(r) /\ ~Deleted(r) /\ downstream[r] = NoObject
    THEN [current |-> NoObject, hasChanged |-> FALSE]
    ELSE IF HasBeenSeen(r) /\ ~Deleted(r) /\ MatchesLastSeen(r)
    THEN [current |-> NoObject, hasChanged |-> FALSE]
    ELSE [current |-> downstream[r], hasChanged |-> TRUE]

\* A patch is kept as the set of the fields its JSON document changes, each by its
\* top-level key and the key under it.
Field(top, sub) == [top |-> top, sub |-> sub]

Data == Field("data", "")
Status == Field("status", "")
Labels == Field("metadata", "labels")
CreationTimestamp == Field("metadata", "creationTimestamp")
ResourceVersion == Field("metadata", "resourceVersion")

\* The ways in which the objects of a scenario differ from their manifests.
Drifts ==
    {{Data}, {Labels}, {Status}, {Status, CreationTimestamp}, {Data, Status},
     {Data, Labels}}

\* The operations of a JSON patch.
Ops == Field("ops", "")

ConfigMap == "v1 ConfigMap"
pdbGVK == "policy/v1 PodDisruptionBudget"

\* next.NeedsToBePatched(current) for a JSON patch; the three-way merge patch of a
\* manifest names the fields in which current differs from the desired state.
NeedsToBePatched(current) == current = Drifted

BuildPatch(r, current) ==
    IF HasPatch(r)
    THEN IF NeedsToBePatched(current) THEN {Ops} ELSE {}
    ELSE IF current = Drifted THEN drift[r] ELSE {}

JSONPatchType == "application/json-patch+json"
MergePatchType == "application/merge-patch+json"
StrategicMergePatchType == "application/strategic-merge-patch+json"

\* A buildPatch that uses the OpenAPI model for every kind it has one for.
StrategicForEveryKind(r) ==
    IF HasPatch(r) THEN JSONPatchType
    ELSE IF ~openAPIModel[r] THEN MergePatchType
    ELSE StrategicMergePatchType

\* The patch type buildPatch answers: model == nil || next.GVK == pdbGVK.
PatchType(r) ==
    IF HasPatch(r) THEN JSONPatchType
    ELSE IF ~openAPIModel[r] \/ kind[r] = pdbGVK THEN MergePatchType
    ELSE StrategicMergePatchType

\* A mungePatch that leaves the status in the patch.
StatusKept(patch) ==
    LET patchMap == (patch \cup {ResourceVersion}) \ {CreationTimestamp}
    IN IF Cardinality({f.top : f \in patchMap}) <= 1 THEN {} ELSE patchMap

\* mungePatch: delete status, set metadata.resourceVersion, clear
\* metadata.creationTimestamp, and answer nil when len(patchMap) <= 1, the length
\* being the number of top-level keys.
MungePatch(patch) ==
    LET patchMap ==
            ({f \in patch : f.top # "status"} \cup {ResourceVersion}) \ {CreationTimestamp}
    IN IF Cardinality({f.top : f \in patchMap}) <= 1 THEN {} ELSE patchMap

PatchBytes(r, current) ==
    IF PatchType(r) # JSONPatchType
    THEN MungePatch(BuildPatch(r, current))
    ELSE BuildPatch(r, current)

\* The downstream calls of reconcileResource.
NoCall == "none"
DeleteCall == "delete"
CreateCall == "create"
PatchCall == "patch"

\* A reconcileResource that creates the object a JSON patch is for.
PatchCreatesMissing(r, current) == FALSE

\* resource.Patch != nil && current == nil: "resource doesn't exist - skipping patch".
PatchSkipsMissing(r, current) == HasPatch(r) /\ current = NoObject

\* A reconcileResource that sends its patch whatever its length.
PatchAlwaysSent(patch) == FALSE

\* A reconcileResource that patches whatever DisableUpdates says.
UpdatesNeverDisabled(r) == FALSE

\* if resource.DisableUpdates: "updates are disabled for this resource - skipping".
UpdatesDisabled(r) == disableUpdates[r]

\* len(patch) == 0: "skipping empty patch".
IsEmptyPatch(patch) == patch = {}

\* reconcileResource: the call it makes downstream; modified is call # NoCall.
ReconcileResource(r, current) ==
    IF Deleted(r)
    THEN IF current = NoObject \/ current = Terminating THEN NoCall
         ELSE IF Orphaned THEN NoCall
         ELSE DeleteCall
    ELSE IF PatchSkipsMissing(r, current) THEN NoCall
    ELSE IF current = NoObject THEN CreateCall
    ELSE IF UpdatesDisabled(r) THEN NoCall
    ELSE IF IsEmptyPatch(PatchBytes(r, current)) THEN NoCall
    ELSE PatchCall

\* The steps of reconcileResource, buildPatch and mungePatch that can fail before
\* the call downstream, on the path current and the resource take it through.
ErrorSites(r, current) ==
    IF Deleted(r) \/ PatchSkipsMissing(r, current) THEN {}
    ELSE IF current = NoObject THEN {"resource.Parse"}
    ELSE IF UpdatesDisabled(r) THEN {}
    ELSE IF HasPatch(r)
    THEN IF NeedsToBePatched(current) THEN {"json.Marshal(next.Patch)"} ELSE {}
    ELSE {"prev.Finalize", "next.Finalize", "current.MarshalJSON", "discovery.Get",
          "CreateThreeWayMergePatch", "json.Unmarshal(patch)", "meta.Accessor"}
         \cup (IF MungePatch(BuildPatch(r, current)) # {}
               THEN {"json.Marshal(patchMap)"} ELSE {})

\* The errors that reach Reconcile's caller wrapped in reconcile.TerminalError; every
\* other one is returned as it is and the work item is retried.
TerminalError(site) ==
    site \in {"prev.Finalize", "next.Finalize", "current.MarshalJSON",
              "CreateThreeWayMergePatch", "json.Unmarshal(patch)", "meta.Accessor"}

NoError == [site |-> "none", terminal |-> FALSE]

\* The object a call leaves downstream.
AfterCall(call, object) ==
    IF call = DeleteCall THEN NoObject
    ELSE IF call \in {CreateCall, PatchCall} THEN InSync
    ELSE object

\* status == nil || status.Ready == nil
NotReady(rs) == ~rs.exists \/ rs.ready = NoTime

\* The CRD gate: "skipping because the CRD that defines this resource type isn't
\* ready". The CRD's status is read through the informer cache.
CRDNotReady(r) ==
    /\ definingCRD[r] # NoCRD
    /\ NotReady(sliceCache[definingCRD[r]])

\* delta := time.Second - time.Since(status.Ready.Time)
CRDDelta(r) == Second - (now - sliceCache[definingCRD[r]].ready)

\* "deferring until the defining CRD has been ready for 1 second"
CRDDeferred(r) ==
    /\ definingCRD[r] # NoCRD
    /\ ~NotReady(sliceCache[definingCRD[r]])
    /\ CRDDelta(r) > 0

CRDGated(r) == CRDNotReady(r) \/ CRDDeferred(r)

\* RangeByReadinessGroup(.., resource.ReadinessGroup, RangeDesc): the resources of the
\* lower readiness groups.
Dependencies(r) == {d \in Resources : ReadinessGroup(d) < ReadinessGroup(r)}

\* A gate that a Deleted resource has to pass as well.
GateAppliesToDeleted(r) == ~sliceCache[r].exists \/ ~sliceCache[r].reconciled

\* (status == nil || !status.Reconciled) && !resource.Deleted()
GateApplies(r) ==
    /\ ~sliceCache[r].exists \/ ~sliceCache[r].reconciled
    /\ ~Deleted(r)

\* "skipping because at least one resource in an earlier readiness group isn't ready
\* yet": the statuses are read through the informer cache.
Gated(r) ==
    /\ GateApplies(r)
    /\ \E d \in Dependencies(r) : NotReady(sliceCache[d])

\* The call a Reconcile of r makes downstream in the present state.
DownstreamCall(r) ==
    IF Dropped \/ CRDGated(r) \/ Gated(r) THEN NoCall
    ELSE IF GetCurrent(r).hasChanged
    THEN ReconcileResource(r, GetCurrent(r).current)
    ELSE NoCall

\* ready: the recorded Ready when the status read has one, else what
\* ReadinessChecks.EvalOptionally answers (readiness; NoTime when not ok).
ReadyOf(r, readiness) ==
    IF NotReady(sliceCache[r]) THEN readiness ELSE sliceCache[r].ready

\* deleted := current == nil || current.GetDeletionTimestamp() != nil
DeletedOf(r) == GetCurrent(r).current \in {NoObject, Terminating}

\* Whether a Reconcile of r reaches PatchStatusAsync.
StatusWritten(r) ==
    /\ ~Dropped
    /\ ~CRDGated(r)
    /\ ~Gated(r)
    /\ DownstreamCall(r) = NoCall

\* The Result a Reconcile of r returns: Result{}, Result{Requeue: true},
\* Result{RequeueAfter: delta}, Result{RequeueAfter: readinessPollInterval} or
\* Result{RequeueAfter: ReconcileInterval}; the jitter of the two intervals is left out.
RequeueNow == "requeue"
AfterDelta == "afterDelta"
AfterPollInterval == "afterPollInterval"
AfterReconcileInterval == "afterReconcileInterval"

\* A requeue policy that reconciles Deleted resources at their interval as well.
IntervalAppliesToDeleted(r) == reconcileInterval[r]

\* resource != nil && !resource.Deleted() && resource.ReconcileInterval != nil
IntervalApplies(r) == ~Deleted(r) /\ reconcileInterval[r]

ReconcileResult(r, readiness) ==
    IF Dropped THEN "none"
    ELSE IF CRDNotReady(r) THEN "none"
    ELSE IF CRDDeferred(r) THEN AfterDelta
    ELSE IF Gated(r) THEN "none"
    ELSE IF DownstreamCall(r) # NoCall THEN RequeueNow
    ELSE IF ReadyOf(r, readiness) = NoTime THEN AfterPollInterval
    ELSE IF IntervalApplies(r) THEN AfterReconcileInterval
    ELSE "none"

\* Reconcile: the Composition has no CurrentSynthesis, or one that Failed; Result{} is
\* returned before anything is read.
ReconcileDropped(r) ==
    /\ Dropped
    /\ UNCHANGED reconcilerVars
    /\ UNCHANGED <<limiterVars, rolloutVars, podVars, watchdogVars>>

\* The ResourceState the Reconcile's status function leaves when it is applied to the
\* state the API server holds.
StatusAfter(r, readiness) ==
    PatchResourceState(DeletedOf(r), ReadyOf(r, readiness), status[r])

\* Reconcile: the CRD of the resource's kind is not ready; Result{} is returned.
ReconcileCRDNotReady(r) ==
    /\ ~Dropped
    /\ CRDNotReady(r)
    /\ UNCHANGED reconcilerVars
    /\ UNCHANGED <<limiterVars, rolloutVars, podVars, watchdogVars>>

\* Reconcile: the CRD has been ready for less than a second; Result{RequeueAfter:
\* delta} is returned.
ReconcileCRDDeferred(r) ==
    /\ ~Dropped
    /\ CRDDeferred(r)
    /\ UNCHANGED reconcilerVars
    /\ UNCHANGED <<limiterVars, rolloutVars, podVars, watchdogVars>>

\* Reconcile: a resource of a lower readiness group is not ready; nothing is done.
ReconcileGated(r) ==
    /\ ~Dropped
    /\ ~CRDGated(r)
    /\ Gated(r)
    /\ UNCHANGED reconcilerVars
    /\ UNCHANGED <<limiterVars, rolloutVars, podVars, watchdogVars>>

\* A Reconcile that keeps the recorded version when it is about to modify the object.
VersionKept(version) == version

\* resource.ObserveVersion(""), before reconcileResource is called: "in case
\* reconciliation fails, invalidate the cache first to avoid skipping the next attempt".
InvalidatedVersion(version) == NoVersion

\* Reconcile: reconcileResource modified the downstream object. The recorded version
\* was invalidated before the call, and Result{Requeue: true} is returned before any
\* version or status is recorded.
ReconcileModified(r) ==
    /\ ~Dropped
    /\ ~CRDGated(r)
    /\ ~Gated(r)
    /\ DownstreamCall(r) # NoCall
    /\ downstream' = [downstream EXCEPT ![r] = AfterCall(DownstreamCall(r), @)]
    /\ lastSeen' = [lastSeen EXCEPT ![r] = InvalidatedVersion(@)]
    /\ UNCHANGED <<patchKind, definingCRD, reconcileInterval, disableUpdates, drift, openAPIModel, kind, lastError, synthesisState, orphan, compDeleting, status, sliceCache, writeBuffer>>
    /\ UNCHANGED <<limiterVars, rolloutVars, podVars, watchdogVars>>

\* Reconcile: the call reconcileResource makes downstream fails. The recorded version
\* was invalidated before the call; the error is returned and nothing else is done.
ReconcileFailed(r) ==
    /\ ~Dropped
    /\ ~CRDGated(r)
    /\ ~Gated(r)
    /\ DownstreamCall(r) # NoCall
    /\ lastSeen' = [lastSeen EXCEPT ![r] = InvalidatedVersion(@)]
    /\ UNCHANGED <<patchKind, definingCRD, reconcileInterval, disableUpdates, drift, openAPIModel, kind, lastError, synthesisState, orphan, compDeleting, downstream, status, sliceCache, writeBuffer>>
    /\ UNCHANGED <<limiterVars, rolloutVars, podVars, watchdogVars>>

\* Reconcile: a step of reconcileResource fails before any call downstream. The
\* recorded version was invalidated before it; the error is returned.
ReconcileErrors(r) ==
    /\ ~Dropped
    /\ ~CRDGated(r)
    /\ ~Gated(r)
    /\ GetCurrent(r).hasChanged
    /\ \E site \in ErrorSites(r, GetCurrent(r).current) :
           lastError' = [site |-> site, terminal |-> TerminalError(site)]
    /\ lastSeen' = [lastSeen EXCEPT ![r] = InvalidatedVersion(@)]
    /\ UNCHANGED <<patchKind, definingCRD, reconcileInterval, disableUpdates, drift, openAPIModel, kind, synthesisState, orphan, compDeleting, downstream, status, sliceCache, writeBuffer>>
    /\ UNCHANGED <<limiterVars, rolloutVars, podVars, watchdogVars>>

\* Reconcile: nothing was modified. The version of the object read is recorded and
\* the status function is handed to the write buffer, which keeps the latest one.
ReconcileUnmodified(r, readiness) ==
    /\ StatusWritten(r)
    /\ NotReady(sliceCache[r]) \/ readiness = NoTime
    /\ lastSeen' = [lastSeen EXCEPT ![r] =
            IF ~GetCurrent(r).hasChanged THEN @
            ELSE IF GetCurrent(r).current # NoObject THEN PresentVersion
            ELSE NoVersion]
    /\ writeBuffer' = [writeBuffer EXCEPT ![r] =
            PatchFn(DeletedOf(r), ReadyOf(r, readiness))]
    /\ UNCHANGED <<patchKind, definingCRD, reconcileInterval, disableUpdates, drift, openAPIModel, kind, lastError, synthesisState, orphan, compDeleting, downstream, status, sliceCache>>
    /\ UNCHANGED <<limiterVars, rolloutVars, podVars, watchdogVars>>

ControllerReconcile(r) ==
    \/ ReconcileGated(r)
    \/ ReconcileModified(r)
    \/ \E readiness \in {NoTime} \cup Times : ReconcileUnmodified(r, readiness)

\* The write buffer applies the function of a resource to the state the API server
\* holds and writes the result.
Flush(r) ==
    /\ writeBuffer[r].queued
    /\ status' = [status EXCEPT ![r] =
            PatchResourceState(writeBuffer[r].deleted, writeBuffer[r].ready, @)]
    /\ writeBuffer' = [writeBuffer EXCEPT ![r] = NoPatchFn]
    /\ UNCHANGED <<patchKind, definingCRD, reconcileInterval, disableUpdates, drift, openAPIModel, kind, lastError, synthesisState, orphan, compDeleting, downstream, lastSeen, sliceCache>>
    /\ UNCHANGED <<limiterVars, rolloutVars, podVars, watchdogVars>>

\* The informer cache catches up with the slice, which holds the states of all the
\* resources.
SliceSync ==
    /\ sliceCache # [r \in Resources |-> Cached(status[r])]
    /\ sliceCache' = [r \in Resources |-> Cached(status[r])]
    /\ UNCHANGED <<patchKind, definingCRD, reconcileInterval, disableUpdates, drift, openAPIModel, kind, lastError, synthesisState, orphan, compDeleting, downstream, lastSeen, status, writeBuffer>>
    /\ UNCHANGED <<limiterVars, rolloutVars, podVars, watchdogVars>>

\* Another hand creates or changes the downstream object.
ExternalChange(r) ==
    /\ downstream' = [downstream EXCEPT ![r] = Drifted]
    /\ lastSeen' = [lastSeen EXCEPT ![r] = Outdated(@)]
    /\ UNCHANGED <<patchKind, definingCRD, reconcileInterval, disableUpdates, drift, openAPIModel, kind, lastError, synthesisState, orphan, compDeleting, status, sliceCache, writeBuffer>>
    /\ UNCHANGED <<limiterVars, rolloutVars, podVars, watchdogVars>>

\* Another hand deletes the downstream object.
ExternalDelete(r) ==
    /\ downstream[r] # NoObject
    /\ downstream' = [downstream EXCEPT ![r] = NoObject]
    /\ lastSeen' = [lastSeen EXCEPT ![r] = Outdated(@)]
    /\ UNCHANGED <<patchKind, definingCRD, reconcileInterval, disableUpdates, drift, openAPIModel, kind, lastError, synthesisState, orphan, compDeleting, status, sliceCache, writeBuffer>>
    /\ UNCHANGED <<limiterVars, rolloutVars, podVars, watchdogVars>>

\* Another hand deletes the downstream object, which a finalizer keeps: it has a
\* deletion timestamp from now on.
ExternalTerminate(r) ==
    /\ downstream[r] \in {InSync, Drifted}
    /\ downstream' = [downstream EXCEPT ![r] = Terminating]
    /\ lastSeen' = [lastSeen EXCEPT ![r] = Outdated(@)]
    /\ UNCHANGED <<patchKind, definingCRD, reconcileInterval, disableUpdates, drift, openAPIModel, kind, lastError, synthesisState, orphan, compDeleting, status, sliceCache, writeBuffer>>
    /\ UNCHANGED <<limiterVars, rolloutVars, podVars, watchdogVars>>

\* The synthesis that replaced the current one has Failed: the Composition's
\* CurrentSynthesis is a failed one until the next synthesis succeeds.
SynthesisFails ==
    /\ synthesisState = Synthesized
    /\ ~compDeleting
    /\ synthesisState' = SynthesisFailed
    /\ UNCHANGED <<patchKind, definingCRD, reconcileInterval, disableUpdates, drift, openAPIModel, kind, lastError, orphan, compDeleting, downstream, lastSeen, status, sliceCache, writeBuffer>>
    /\ UNCHANGED <<limiterVars, rolloutVars, podVars, watchdogVars>>

\* A new synthesis becomes current (the test updates the synthesizer's image): new
\* desired states, new slices without statuses, new cache entries without a recorded
\* version. Functions still buffered are for the slices of the old synthesis.
Resynthesize ==
    /\ ~compDeleting
    /\ downstream' = [r \in Resources |->
            IF downstream[r] = InSync THEN Drifted ELSE downstream[r]]
    /\ lastSeen' = [r \in Resources |-> NoVersion]
    /\ status' = [r \in Resources |-> NoState]
    /\ sliceCache' = [r \in Resources |-> NoState]
    /\ writeBuffer' = [r \in Resources |-> NoPatchFn]
    /\ synthesisState' = Synthesized
    /\ UNCHANGED <<patchKind, definingCRD, reconcileInterval, disableUpdates, drift, openAPIModel, kind, lastError, orphan, compDeleting>>
    /\ UNCHANGED <<limiterVars, rolloutVars, podVars, watchdogVars>>

\* upstream.Delete(ctx, comp): the Composition is being deleted.
DeleteComposition ==
    /\ ~compDeleting
    /\ compDeleting' = TRUE
    /\ UNCHANGED <<patchKind, definingCRD, reconcileInterval, disableUpdates, drift, openAPIModel, kind, lastError, synthesisState, orphan, downstream, lastSeen, status, sliceCache, writeBuffer>>
    /\ UNCHANGED <<limiterVars, rolloutVars, podVars, watchdogVars>>

\* ------------------------------------------------ the rollout of a Synthesizer
\* The rollout cooldown and the clock, in ticks of the clock; the clock starts at 1.
RolloutCooldown == 2
MaxClock == 5
MaxSynGen == 3

\* The user updates the Synthesizer's spec (syn.Spec.Image): a new generation.
UpdateSynthesizer ==
    /\ synGeneration < MaxSynGen
    /\ synGeneration' = synGeneration + 1
    /\ UNCHANGED <<now, lastRolloutTime, observedSynGen>>
    /\ UNCHANGED <<limiterVars, reconcilerVars, podVars, watchdogVars>>

\* Time passes.
Tick ==
    /\ now < MaxClock
    /\ now' = now + 1
    /\ UNCHANGED <<synGeneration, lastRolloutTime, observedSynGen>>
    /\ UNCHANGED <<limiterVars, reconcilerVars, podVars, watchdogVars>>

\* A rollout that does not look at the time of the last one.
RolloutAlwaysDue == TRUE

\* time-since-LastRolloutTime >= cooldown; a Synthesizer never rolled out has no
\* LastRolloutTime.
RolloutDue ==
    \/ lastRolloutTime = NoTime
    \/ now - lastRolloutTime >= RolloutCooldown

\* The rollout controller, for a Composition bound to the changed Synthesizer: a new
\* CurrentSynthesis that observes the Synthesizer's generation is authored and
\* LastRolloutTime is stamped.
Rollout(c) ==
    /\ observedSynGen[c] < synGeneration
    /\ RolloutDue
    /\ observedSynGen' = [observedSynGen EXCEPT ![c] = synGeneration]
    /\ lastRolloutTime' = now
    /\ UNCHANGED <<now, synGeneration>>
    /\ UNCHANGED <<limiterVars, reconcilerVars, podVars, watchdogVars>>

\* The rollout controller within the cooldown: requeue at the deadline.
RolloutDeferred(c) ==
    /\ observedSynGen[c] < synGeneration
    /\ ~RolloutDue
    /\ UNCHANGED rolloutVars
    /\ UNCHANGED <<limiterVars, reconcilerVars, podVars, watchdogVars>>

\* The Synthesizer and the Compositions after the initial sync: every Composition
\* observes the Synthesizer's generation, and nothing has been rolled out.
NoRollout ==
    /\ now = 1
    /\ synGeneration = 1
    /\ lastRolloutTime = NoTime
    /\ observedSynGen = [c \in Comps |-> 1]

\* ------------------------------------------------------- the watchdog
\* watchdogController.threshold, in ticks of the clock.
Threshold == 2

\* getInputsExist: when the Get of the Synthesizer fails, "presuming inputs are not
\* missing", it answers true.
getInputsExist(c) == IF ~synthesizerFound[c] THEN TRUE ELSE inputsExist[c]

\* getNotInLockstep: when the Get of the Synthesizer fails it answers true as well.
getNotInLockstep(c) == IF ~synthesizerFound[c] THEN TRUE ELSE inputsOutOfLockstep[c]

\* time.Since(comp.CreationTimestamp.Time) > c.threshold; the Compositions were
\* created when the clock started, at 1.
waitingOnInputs(c) == ~getInputsExist(c) /\ now - 1 > Threshold

notInLockstep(c) == getNotInLockstep(c) /\ now - 1 > Threshold

\* Reconcile of the watchdog: the loop over list.Items and the two gauges it sets.
WatchdogReconcile ==
    /\ inputsMissing' = Cardinality({c \in Comps : waitingOnInputs(c)})
    /\ notInLockstepCount' = Cardinality({c \in Comps : notInLockstep(c)})
    /\ UNCHANGED <<synthesizerFound, inputsExist, inputsOutOfLockstep>>
    /\ UNCHANGED <<limiterVars, reconcilerVars, rolloutVars, podVars>>

\* No watchdog at work: every Synthesizer is found, with its inputs.
NoWatchdog ==
    /\ synthesizerFound = [c \in Comps |-> TRUE]
    /\ inputsExist = [c \in Comps |-> TRUE]
    /\ inputsOutOfLockstep = [c \in Comps |-> FALSE]
    /\ inputsMissing = 0
    /\ notInLockstepCount = 0

\* ------------------------------------------------- the specifications
NoResources ==
    /\ patchKind = [r \in Resources |-> Manifest]
    /\ definingCRD = [r \in Resources |-> NoCRD]
    /\ synthesisState = Synthesized
    /\ reconcileInterval = [r \in Resources |-> FALSE]
    /\ disableUpdates = [r \in Resources |-> FALSE]
    /\ drift = [r \in Resources |-> {Data}]
    /\ openAPIModel = [r \in Resources |-> FALSE]
    /\ kind = [r \in Resources |-> ConfigMap]
    /\ lastError = NoError
    /\ orphan = FALSE
    /\ compDeleting = FALSE
    /\ downstream = [r \in Resources |-> NoObject]
    /\ lastSeen = [r \in Resources |-> NoVersion]
    /\ status = [r \in Resources |-> NoState]
    /\ sliceCache = [r \in Resources |-> NoState]
    /\ writeBuffer = [r \in Resources |-> NoPatchFn]

LimiterInit ==
    /\ limit \in 1..NumComps
    /\ comps = [c \in Comps |-> NewComposition]
    /\ cache = [c \in Comps |-> NewComposition]
    /\ watch = <<>>
    /\ queued = FALSE
    /\ requeue = NoRequeue
    /\ lastDispatch = NoTime
    /\ NoResources
    /\ NoRollout
    /\ NoPods
    /\ NoWatchdog

LimiterNext ==
    \/ Deliver
    \/ RequeueFires
    \/ Reconcile
    \/ \E c \in Comps : UpdateComposition(c)
    \/ \E c \in Comps : NewSynthesis(c)
    \/ \E c \in Comps : PodSucceeds(c)

vars == <<limiterVars, reconcilerVars, rolloutVars, podVars, watchdogVars>>

Init == LimiterInit

Next == LimiterNext

Spec == Init /\ [][Next]_vars

\* The informer delivers every event in the end, and the controller that authors new
\* syntheses is run again for a Composition as long as one is due. The limit is the
\* tightest one.
LiveInit == LimiterInit /\ limit = 1

LiveSpec ==
    /\ LiveInit
    /\ [][Next]_vars
    /\ WF_vars(Deliver)
    /\ \A c \in Comps : WF_vars(NewSynthesis(c))

\* The reconciler at work on the resources of one Composition whose synthesis is
\* current and has not failed; each resource is a manifest or a JSON patch.
ReconcilerInit ==
    /\ limit = 1
    /\ comps = [c \in Comps |-> NewComposition]
    /\ cache = [c \in Comps |-> NewComposition]
    /\ watch = <<>>
    /\ queued = FALSE
    /\ requeue = NoRequeue
    /\ lastDispatch = NoTime
    /\ patchKind \in [Resources -> {Manifest, JSONPatch}]
    /\ definingCRD = [r \in Resources |-> NoCRD]
    /\ synthesisState = Synthesized
    /\ reconcileInterval = [r \in Resources |-> FALSE]
    /\ disableUpdates = [r \in Resources |-> FALSE]
    /\ drift = [r \in Resources |-> {Data}]
    /\ openAPIModel = [r \in Resources |-> FALSE]
    /\ kind = [r \in Resources |-> ConfigMap]
    /\ lastError = NoError
    /\ orphan = FALSE
    /\ compDeleting = FALSE
    /\ downstream = [r \in Resources |-> NoObject]
    /\ lastSeen = [r \in Resources |-> NoVersion]
    /\ status = [r \in Resources |-> NoState]
    /\ sliceCache = [r \in Resources |-> NoState]
    /\ writeBuffer = [r \in Resources |-> NoPatchFn]
    /\ NoRollout
    /\ NoPods
    /\ NoWatchdog

ReconcilerNext ==
    \/ \E r \in Resources : ControllerReconcile(r)
    \/ \E r \in Resources : Flush(r)
    \/ SliceSync
    \/ \E r \in Resources : ExternalChange(r)
    \/ \E r \in Resources : ExternalDelete(r)
    \/ Resynthesize
    \/ DeleteComposition

ReconcilerSpec == ReconcilerInit /\ [][ReconcilerNext]_vars

\* The reconciler at work, while time passes, on a synthesis without a CRD or on one
\* whose first resource is a CRD and whose other resources are of the kind it defines.
CRDInit ==
    /\ limit = 1
    /\ comps = [c \in Comps |-> NewComposition]
    /\ cache = [c \in Comps |-> NewComposition]
    /\ watch = <<>>
    /\ queued = FALSE
    /\ requeue = NoRequeue
    /\ lastDispatch = NoTime
    /\ patchKind = [r \in Resources |-> Manifest]
    /\ definingCRD \in {[r \in Resources |-> NoCRD],
                       [r \in Resources |-> IF r = 1 THEN NoCRD ELSE 1]}
    /\ synthesisState = Synthesized
    /\ reconcileInterval = [r \in Resources |-> FALSE]
    /\ disableUpdates = [r \in Resources |-> FALSE]
    /\ drift = [r \in Resources |-> {Data}]
    /\ openAPIModel = [r \in Resources |-> FALSE]
    /\ kind = [r \in Resources |-> ConfigMap]
    /\ lastError = NoError
    /\ orphan = FALSE
    /\ compDeleting = FALSE
    /\ downstream = [r \in Resources |-> NoObject]
    /\ lastSeen = [r \in Resources |-> NoVersion]
    /\ status = [r \in Resources |-> NoState]
    /\ sliceCache = [r \in Resources |-> NoState]
    /\ writeBuffer = [r \in Resources |-> NoPatchFn]
    /\ NoRollout
    /\ NoPods
    /\ NoWatchdog

CRDNext ==
    \/ \E r \in Resources : ReconcileCRDNotReady(r)
    \/ \E r \in Resources : ReconcileCRDDeferred(r)
    \/ \E r \in Resources : ControllerReconcile(r)
    \/ \E r \in Resources : Flush(r)
    \/ SliceSync
    \/ Tick
    \/ Resynthesize
    \/ DeleteComposition

CRDSpec == CRDInit /\ [][CRDNext]_vars

\* The rollout controller at work on the Compositions bound to one Synthesizer.
RolloutInit ==
    /\ limit = 1
    /\ comps = [c \in Comps |-> NewComposition]
    /\ cache = [c \in Comps |-> NewComposition]
    /\ watch = <<>>
    /\ queued = FALSE
    /\ requeue = NoRequeue
    /\ lastDispatch = NoTime
    /\ NoResources
    /\ NoRollout
    /\ NoPods
    /\ NoWatchdog

RolloutNext ==
    \/ UpdateSynthesizer
    \/ Tick
    \/ \E c \in Comps : Rollout(c)
    \/ \E c \in Comps : RolloutDeferred(c)

RolloutSpec == RolloutInit /\ [][RolloutNext]_vars

\* The reconciler at work on a Composition from before its first synthesis, through
\* syntheses that fail and succeed, to its deletion, with or without the orphan
\* annotation.
LifecycleInit ==
    /\ limit = 1
    /\ comps = [c \in Comps |-> NewComposition]
    /\ cache = [c \in Comps |-> NewComposition]
    /\ watch = <<>>
    /\ queued = FALSE
    /\ requeue = NoRequeue
    /\ lastDispatch = NoTime
    /\ patchKind = [r \in Resources |-> Manifest]
    /\ definingCRD = [r \in Resources |-> NoCRD]
    /\ synthesisState = NoCurrentSynthesis
    /\ reconcileInterval = [r \in Resources |-> FALSE]
    /\ disableUpdates = [r \in Resources |-> FALSE]
    /\ drift = [r \in Resources |-> {Data}]
    /\ openAPIModel = [r \in Resources |-> FALSE]
    /\ kind = [r \in Resources |-> ConfigMap]
    /\ lastError = NoError
    /\ orphan \in BOOLEAN
    /\ compDeleting = FALSE
    /\ downstream = [r \in Resources |-> NoObject]
    /\ lastSeen = [r \in Resources |-> NoVersion]
    /\ status = [r \in Resources |-> NoState]
    /\ sliceCache = [r \in Resources |-> NoState]
    /\ writeBuffer = [r \in Resources |-> NoPatchFn]
    /\ NoRollout
    /\ NoPods
    /\ NoWatchdog

LifecycleNext ==
    \/ \E r \in Resources : ReconcileDropped(r)
    \/ \E r \in Resources : ControllerReconcile(r)
    \/ \E r \in Resources : ReconcileFailed(r)
    \/ \E r \in Resources : Flush(r)
    \/ SliceSync
    \/ \E r \in Resources : ExternalTerminate(r)
    \/ SynthesisFails
    \/ Resynthesize
    \/ DeleteComposition

LifecycleSpec == LifecycleInit /\ [][LifecycleNext]_vars

\* The reconciler and the write buffer at work on slices that hold any statuses.
StatusInit ==
    /\ limit = 1
    /\ comps = [c \in Comps |-> NewComposition]
    /\ cache = [c \in Comps |-> NewComposition]
    /\ watch = <<>>
    /\ queued = FALSE
    /\ requeue = NoRequeue
    /\ lastDispatch = NoTime
    /\ patchKind = [r \in Resources |-> Manifest]
    /\ definingCRD = [r \in Resources |-> NoCRD]
    /\ synthesisState = Synthesized
    /\ reconcileInterval = [r \in Resources |-> FALSE]
    /\ disableUpdates = [r \in Resources |-> FALSE]
    /\ drift = [r \in Resources |-> {Data}]
    /\ openAPIModel = [r \in Resources |-> FALSE]
    /\ kind = [r \in Resources |-> ConfigMap]
    /\ lastError = NoError
    /\ orphan = FALSE
    /\ compDeleting = FALSE
    /\ downstream = [r \in Resources |-> NoObject]
    /\ lastSeen = [r \in Resources |-> NoVersion]
    /\ status \in [Resources -> ResourceStates]
    /\ sliceCache = [r \in Resources |-> Cached(status[r])]
    /\ writeBuffer = [r \in Resources |-> NoPatchFn]
    /\ NoRollout
    /\ NoPods
    /\ NoWatchdog

StatusNext ==
    \/ \E r \in Resources : ControllerReconcile(r)
    \/ \E r \in Resources : Flush(r)
    \/ SliceSync
    \/ DeleteComposition

StatusSpec == StatusInit /\ [][StatusNext]_vars

\* The reconciler at work on resources with or without a ReconcileInterval.
IntervalInit ==
    /\ limit = 1
    /\ comps = [c \in Comps |-> NewComposition]
    /\ cache = [c \in Comps |-> NewComposition]
    /\ watch = <<>>
    /\ queued = FALSE
    /\ requeue = NoRequeue
    /\ lastDispatch = NoTime
    /\ patchKind = [r \in Resources |-> Manifest]
    /\ definingCRD = [r \in Resources |-> NoCRD]
    /\ reconcileInterval \in [Resources -> BOOLEAN]
    /\ disableUpdates = [r \in Resources |-> FALSE]
    /\ drift = [r \in Resources |-> {Data}]
    /\ openAPIModel = [r \in Resources |-> FALSE]
    /\ kind = [r \in Resources |-> ConfigMap]
    /\ lastError = NoError
    /\ synthesisState = Synthesized
    /\ orphan = FALSE
    /\ compDeleting = FALSE
    /\ downstream = [r \in Resources |-> NoObject]
    /\ lastSeen = [r \in Resources |-> NoVersion]
    /\ status = [r \in Resources |-> NoState]
    /\ sliceCache = [r \in Resources |-> NoState]
    /\ writeBuffer = [r \in Resources |-> NoPatchFn]
    /\ NoRollout
    /\ NoPods
    /\ NoWatchdog

IntervalNext ==
    \/ \E r \in Resources : ControllerReconcile(r)
    \/ \E r \in Resources : Flush(r)
    \/ SliceSync
    \/ DeleteComposition

IntervalSpec == IntervalInit /\ [][IntervalNext]_vars

\* The reconciler at work on resources of every patch kind, with or without an
\* OpenAPI model, of either kind, whose objects differ from the manifest in any fields.
PatchInit ==
    /\ limit = 1
    /\ comps = [c \in Comps |-> NewComposition]
    /\ cache = [c \in Comps |-> NewComposition]
    /\ watch = <<>>
    /\ queued = FALSE
    /\ requeue = NoRequeue
    /\ lastDispatch = NoTime
    /\ \E k \in {Manifest, JSONPatch} : patchKind = [r \in Resources |-> k]
    /\ definingCRD = [r \in Resources |-> NoCRD]
    /\ synthesisState = Synthesized
    /\ reconcileInterval = [r \in Resources |-> FALSE]
    /\ disableUpdates = [r \in Resources |-> FALSE]
    /\ \E fields \in Drifts : drift = [r \in Resources |-> fields]
    /\ \E model \in BOOLEAN : openAPIModel = [r \in Resources |-> model]
    /\ \E k \in {ConfigMap, pdbGVK} : kind = [r \in Resources |-> k]
    /\ lastError = NoError
    /\ orphan = FALSE
    /\ compDeleting = FALSE
    /\ downstream = [r \in Resources |-> NoObject]
    /\ lastSeen = [r \in Resources |-> NoVersion]
    /\ status = [r \in Resources |-> NoState]
    /\ sliceCache = [r \in Resources |-> NoState]
    /\ writeBuffer = [r \in Resources |-> NoPatchFn]
    /\ NoRollout
    /\ NoPods
    /\ NoWatchdog
    /\ HasPatch(1) => drift[1] = {Data} /\ ~openAPIModel[1] /\ kind[1] = ConfigMap

PatchNext ==
    \/ \E r \in Resources : ControllerReconcile(r)
    \/ \E r \in Resources : Flush(r)
    \/ SliceSync
    \/ \E r \in Resources : ExternalChange(r)

PatchSpec == PatchInit /\ [][PatchNext]_vars

\* The reconciler at work on resources with and without DisableUpdates.
UpdatesInit ==
    /\ limit = 1
    /\ comps = [c \in Comps |-> NewComposition]
    /\ cache = [c \in Comps |-> NewComposition]
    /\ watch = <<>>
    /\ queued = FALSE
    /\ requeue = NoRequeue
    /\ lastDispatch = NoTime
    /\ patchKind = [r \in Resources |-> Manifest]
    /\ definingCRD = [r \in Resources |-> NoCRD]
    /\ synthesisState = Synthesized
    /\ reconcileInterval = [r \in Resources |-> FALSE]
    /\ disableUpdates \in [Resources -> BOOLEAN]
    /\ drift = [r \in Resources |-> {Data}]
    /\ openAPIModel = [r \in Resources |-> FALSE]
    /\ kind = [r \in Resources |-> ConfigMap]
    /\ lastError = NoError
    /\ orphan = FALSE
    /\ compDeleting = FALSE
    /\ downstream = [r \in Resources |-> NoObject]
    /\ lastSeen = [r \in Resources |-> NoVersion]
    /\ status = [r \in Resources |-> NoState]
    /\ sliceCache = [r \in Resources |-> NoState]
    /\ writeBuffer = [r \in Resources |-> NoPatchFn]
    /\ NoRollout
    /\ NoPods
    /\ NoWatchdog

UpdatesNext ==
    \/ \E r \in Resources : ControllerReconcile(r)
    \/ \E r \in Resources : Flush(r)
    \/ SliceSync
    \/ \E r \in Resources : ExternalChange(r)
    \/ DeleteComposition

UpdatesSpec == UpdatesInit /\ [][UpdatesNext]_vars

\* The reconciler at work with steps of reconcileResource that fail.
ErrorInit ==
    /\ limit = 1
    /\ comps = [c \in Comps |-> NewComposition]
    /\ cache = [c \in Comps |-> NewComposition]
    /\ watch = <<>>
    /\ queued = FALSE
    /\ requeue = NoRequeue
    /\ lastDispatch = NoTime
    /\ patchKind = [r \in Resources |-> IF r = 1 THEN Manifest ELSE JSONPatch]
    /\ definingCRD = [r \in Resources |-> NoCRD]
    /\ synthesisState = Synthesized
    /\ reconcileInterval = [r \in Resources |-> FALSE]
    /\ disableUpdates = [r \in Resources |-> FALSE]
    /\ drift = [r \in Resources |-> {Data}]
    /\ openAPIModel = [r \in Resources |-> FALSE]
    /\ kind = [r \in Resources |-> ConfigMap]
    /\ lastError = NoError
    /\ orphan = FALSE
    /\ compDeleting = FALSE
    /\ downstream = [r \in Resources |-> NoObject]
    /\ lastSeen = [r \in Resources |-> NoVersion]
    /\ status = [r \in Resources |-> NoState]
    /\ sliceCache = [r \in Resources |-> NoState]
    /\ writeBuffer = [r \in Resources |-> NoPatchFn]
    /\ NoRollout
    /\ NoPods
    /\ NoWatchdog

ErrorNext ==
    \/ \E r \in Resources : ControllerReconcile(r)
    \/ \E r \in Resources : ReconcileErrors(r)
    \/ \E r \in Resources : Flush(r)
    \/ SliceSync
    \/ \E r \in Resources : ExternalChange(r)

ErrorSpec == ErrorInit /\ [][ErrorNext]_vars

\* The watchdog at work as time passes, over Compositions whose Synthesizer can or
\* cannot be fetched, with their inputs present or missing, in or out of lockstep.
WatchdogInit ==
    /\ limit = 1
    /\ comps = [c \in Comps |-> NewComposition]
    /\ cache = [c \in Comps |-> NewComposition]
    /\ watch = <<>>
    /\ queued = FALSE
    /\ requeue = NoRequeue
    /\ lastDispatch = NoTime
    /\ NoResources
    /\ NoRollout
    /\ NoPods
    /\ synthesizerFound \in [Comps -> BOOLEAN]
    /\ inputsExist \in [Comps -> BOOLEAN]
    /\ inputsOutOfLockstep \in [Comps -> BOOLEAN]
    /\ inputsMissing = 0
    /\ notInLockstepCount = 0

WatchdogSpec == WatchdogInit /\ [][WatchdogReconcile \/ Tick]_vars

\* The limiter with the pod lifecycle around it: pods are created for active
\* Compositions, and they complete, fail or disappear.
PodInit == LimiterInit

PodNext ==
    \/ Deliver
    \/ RequeueFires
    \/ Reconcile
    \/ \E c \in Comps : UpdateComposition(c)
    \/ \E c \in Comps : NewSynthesis(c)
    \/ \E c \in Comps : CreatePod(c)
    \/ \E c \in Comps : PodCompletes(c)
    \/ \E c \in Comps : PodFails(c)
    \/ \E c \in Comps : PodGone(c)

PodSpec == PodInit /\ [][PodNext]_vars

\* The limiter while time passes: a requeue after the cooldown waits for its time,
\* and watch events are delivered, and reconciled, as they come.
PacingNext ==
    \/ Deliver
    \/ RequeueFiresInTime
    \/ Reconcile
    \/ Tick
    \/ \E c \in Comps : NewSynthesis(c)
    \/ \E c \in Comps : PodSucceeds(c)

PacingSpec == LimiterInit /\ [][PacingNext]_vars

\* The limiter under the tightest limit, with one synthesis for each Composition and
\* pods that complete or fail. Ticks keep occurring (events are delivered, requeues
\* come due, the informer resyncs, a queued request is reconciled), the random choice
\* among the pending is fair, a due synthesis is authored, an active Composition
\* without a pod gets one, and a pod that does not fail completes.
DispatchNext ==
    \/ Deliver
    \/ RequeueFires
    \/ Resync
    \/ Reconcile
    \/ \E c \in Comps : NewSynthesis(c)
    \/ \E c \in Comps : CreatePod(c)
    \/ \E c \in Comps : PodCompletes(c)
    \/ \E c \in Comps : PodFails(c)

DispatchSpec ==
    /\ LiveInit
    /\ [][DispatchNext]_vars
    /\ WF_vars(Deliver)
    /\ WF_vars(RequeueFires)
    /\ WF_vars(Resync)
    /\ WF_vars(Reconcile)
    /\ \A n \in Comps : SF_vars(ReconcileDispatch(n))
    /\ \A c \in Comps : WF_vars(NewSynthesis(c))
    /\ \A c \in Comps : WF_vars(CreatePod(c))
    /\ \A c \in Comps : WF_vars(PodCompletes(c))

\* Two states of a Composition hold the same CurrentSynthesis slot: every swap
\* installs a slot for a generation the previous slot did not observe.
SameSlot(old, new) ==
    /\ old.current.exists
    /\ new.current.exists
    /\ old.current.observedGen = new.current.observedGen

\* C1: the number of Compositions whose CurrentSynthesis has a UUID and is not yet
\* synthesized never exceeds the concurrency limit.
C1_ActiveWithinLimit == Cardinality(ActiveIn(comps)) <= limit

\* C2: within one CurrentSynthesis slot a UUID, once assigned, is never replaced by
\* another one, whatever the list the limiter acted on.
C2_UUIDAssignedOnce ==
    [][\A c \in Comps :
        (SameSlot(comps[c], comps'[c]) /\ comps[c].current.uuid # NoUUID)
            => comps'[c].current.uuid = comps[c].current.uuid]_vars

\* The limiter picked, from a stale list, a Composition whose slot already had a UUID,
\* and the API server refused the patch.
C2_StalePickRefused ==
    /\ requeue = RateLimited
    /\ \E n \in PendingIn(cache) : comps[n].current.uuid # NoUUID

\* C9 (the cap): while `limit` syntheses are active, a pending Composition keeps its
\* empty UUID; only the completion of an active synthesis lets another be promoted.
C9_PendingWaitForCompletion ==
    [][Cardinality(ActiveIn(comps)) >= limit
        => \A c \in Comps : IsPending(comps[c]) => ~IsActive(comps'[c])]_vars

C3_LowerGroupsReadyFirst ==
    \A r \in Resources :
        DownstreamCall(r) \in {CreateCall, PatchCall}
            => \A d \in Dependencies(r) : ~NotReady(status[d])

\* C4: within one synthesis the Ready of a ResourceState, once set, is neither cleared
\* nor replaced by another time, however the Reconciles of the resource interleave
\* with the writes of the buffer.
C4_ReadyIsNeverRewritten ==
    [][\A r \in Resources :
        (~NotReady(status[r]) /\ status'[r].exists)
            => status'[r].ready = status[r].ready]_vars

\* C5: a Reconcile never creates the object of a resource whose desired state is a
\* JSON patch.
C5_PatchIsNeverCreated ==
    \A r \in Resources : HasPatch(r) => DownstreamCall(r) # CreateCall

\* The object of a JSON patch is missing and nothing holds its Reconcile back, which
\* has recorded the object as deleted instead of creating it.
C5_PatchTargetMissing ==
    \E r \in Resources :
        /\ HasPatch(r)
        /\ ~Deleted(r)
        /\ downstream[r] = NoObject
        /\ ~Gated(r)
        /\ GetCurrent(r).hasChanged
        /\ status[r].exists /\ status[r].deleted

\* C6: a Reconcile that read the object and whose patch came out empty makes no call
\* downstream.
C6_EmptyPatchMakesNoCall ==
    \A r \in Resources :
        (/\ ~Gated(r)
         /\ ~Deleted(r)
         /\ GetCurrent(r).hasChanged
         /\ GetCurrent(r).current # NoObject
         /\ PatchBytes(r, GetCurrent(r).current) = {})
            => DownstreamCall(r) = NoCall

\* The object was created or patched by an earlier Reconcile (which invalidated the
\* recorded version), and the Reconcile now due reads it in full and finds it as desired.
C6_InSyncObjectRead ==
    \E r \in Resources :
        /\ ~Gated(r)
        /\ ~Deleted(r)
        /\ lastSeen[r] = NoVersion
        /\ downstream[r] = InSync
        /\ GetCurrent(r).hasChanged

\* A resource whose previous Reconcile completed, with its status written and seen by
\* the informer, and whose object has not changed since.
Settled(r) ==
    /\ ~Deleted(r)
    /\ MatchesLastSeen(r)
    /\ ~writeBuffer[r].queued
    /\ sliceCache[r] = Cached(status[r])
    /\ ~NotReady(status[r])

\* C7: the Reconcile of a settled resource makes no call downstream and leaves its
\* ResourceState as it is.
C7_RerunIsNoOp ==
    \A r \in Resources :
        Settled(r) =>
            /\ DownstreamCall(r) = NoCall
            /\ StatusAfter(r, NoTime) = status[r]

\* C8: the Reconcile of a Deleted resource whose object exists deletes it, whatever the
\* readiness of the lower readiness groups.
C8_DeleteIsNotGated ==
    \A r \in Resources :
        (Deleted(r) /\ downstream[r] # NoObject) => DownstreamCall(r) = DeleteCall

\* A Deleted resource whose object exists and has no reconciled status, while a
\* resource of a lower readiness group has no Ready.
C8_DeletedBehindUnreadyGroup ==
    \E r \in Resources :
        /\ Deleted(r)
        /\ downstream[r] # NoObject
        /\ GateAppliesToDeleted(r)
        /\ \E d \in Dependencies(r) : NotReady(sliceCache[d]) /\ NotReady(status[d])

\* C11: a swap on a Composition whose CurrentSynthesis is synthesized keeps that slot
\* as PreviousSynthesis, and a PreviousSynthesis never observes a later generation of
\* the Composition than the CurrentSynthesis does.
C11_PreviousIsRetainedAndOlder ==
    /\ [](\A c \in Comps :
            comps[c].previous.exists =>
                comps[c].previous.observedGen <= comps[c].current.observedGen)
    /\ [][\A c \in Comps :
            (/\ comps[c].current.exists
             /\ comps[c].current.synthesized
             /\ ~SameSlot(comps[c], comps'[c]))
                => comps'[c].previous = comps[c].current]_vars

\* A synthesized synthesis of an older generation has become PreviousSynthesis.
C11_OlderSynthesisKept ==
    \E c \in Comps :
        /\ comps[c].previous.exists
        /\ comps[c].previous.synthesized
        /\ comps[c].previous.observedGen < comps[c].current.observedGen

\* C12: a Synthesizer's generation reaches a Composition only when the Synthesizer was
\* never rolled out or its last rollout is at least the cooldown ago, and the rollout
\* stamps LastRolloutTime: the rollouts of one Synthesizer are a cooldown apart.
C12_RolloutsAreSpacedByCooldown ==
    [][\A c \in Comps :
        observedSynGen'[c] # observedSynGen[c] =>
            /\ lastRolloutTime = NoTime \/ now - lastRolloutTime >= RolloutCooldown
            /\ lastRolloutTime' = now]_vars

\* The Synthesizer was updated again within the cooldown of its last rollout, and a
\* Composition still observes the generation before the update.
C12_UpdateHeldBack ==
    \E c \in Comps :
        /\ lastRolloutTime # NoTime
        /\ now - lastRolloutTime < RolloutCooldown
        /\ observedSynGen[c] < synGeneration
        /\ observedSynGen[c] > 1

\* C13: in no state does a Reconcile create, patch or delete the object of a resource
\* whose kind is defined by a CRD of the synthesis unless the slice holds a Ready for
\* the CRD that is at least a second old.
C13_CRDReadyForASecond ==
    \A r \in Resources :
        (definingCRD[r] # NoCRD /\ DownstreamCall(r) # NoCall) =>
            /\ ~NotReady(status[definingCRD[r]])
            /\ now - status[definingCRD[r]].ready >= Second

\* C14: the Reconcile of a resource that is not Deleted and is not a JSON patch, whose
\* object is missing downstream and which no gate holds back, creates the object, also
\* when the object had been seen before and was removed afterwards.
C14_MissingObjectIsCreated ==
    \A r \in Resources :
        (/\ ~Deleted(r)
         /\ ~HasPatch(r)
         /\ downstream[r] = NoObject
         /\ ~CRDGated(r)
         /\ ~Gated(r))
            => DownstreamCall(r) = CreateCall

\* C15: every failure of a pod increments Attempts; a pod is created only for a
\* synthesis that has not Failed and whose Attempts are within MaxRestarts; with more
\* failures than MaxRestarts the synthesis is Failed, and stays so, without a new pod,
\* until a new synthesis takes its place.
C15_RetriedUpToMaxRestarts ==
    /\ [](\A c \in Comps :
            /\ attempts[c] <= MaxRestarts + 1
            /\ failed[c] <=> attempts[c] > MaxRestarts)
    /\ [][\A c \in Comps :
            /\ (~pod[c] /\ pod'[c]) => (~failed[c] /\ attempts[c] <= MaxRestarts)
            /\ (failed[c] /\ SameSlot(comps[c], comps'[c])) =>
                (failed'[c] /\ (pod'[c] => pod[c]))]_vars

\* A synthesis has Failed after MaxRestarts + 1 attempts, its pod is gone, and it is
\* still the current one.
C15_FailedForGood ==
    \E c \in Comps :
        /\ failed[c]
        /\ attempts[c] = MaxRestarts + 1
        /\ ~pod[c]
        /\ IsActive(comps[c])

\* C16: while the Composition has no CurrentSynthesis or one that Failed, a Reconcile
\* of any of its resources makes no call downstream, hands no status to the write
\* buffer and returns without a requeue; no step records a version, enqueues a status
\* function or creates, patches or removes a downstream object.
C16_NothingWithoutSynthesis ==
    /\ [](synthesisState # Synthesized =>
            \A r \in Resources :
                /\ DownstreamCall(r) = NoCall
                /\ ~StatusWritten(r)
                /\ \A readiness \in {NoTime} \cup Times :
                        ReconcileResult(r, readiness) = NoRequeue)
    /\ [][(synthesisState # Synthesized /\ synthesisState' # Synthesized) =>
            \A r \in Resources :
                    /\ lastSeen'[r] \in {lastSeen[r], Outdated(lastSeen[r])}
                    /\ writeBuffer'[r].queued => writeBuffer'[r] = writeBuffer[r]
                    /\ downstream'[r] \in {downstream[r], Terminating}]_vars

\* The CurrentSynthesis has Failed while an object of the Composition is missing
\* downstream and another differs from an earlier desired state.
C16_FailedWithWorkLeft ==
    /\ synthesisState = SynthesisFailed
    /\ \E r \in Resources : downstream[r] = NoObject /\ ~Gated(r)
    /\ \E r \in Resources : downstream[r] = Drifted

\* C17: with the orphan annotation no Reconcile deletes an object, and no object of
\* the deleted Composition is removed; without it, the Reconcile of a Deleted
\* resource whose object exists and has no deletion timestamp deletes it.
C17_OrphanKeepsObjects ==
    /\ [](\A r \in Resources :
            /\ orphan => DownstreamCall(r) # DeleteCall
            /\ (/\ ~orphan
                /\ synthesisState = Synthesized
                /\ Deleted(r)
                /\ downstream[r] \in {InSync, Drifted})
                    => DownstreamCall(r) = DeleteCall)
    /\ [][orphan =>
            \A r \in Resources : downstream[r] # NoObject => downstream'[r] # NoObject]_vars

\* The Composition is annotated and being deleted, and a Reconcile of a resource has
\* read its object, left it in place and recorded its version and its status.
C17_OrphanedObjectLeft ==
    \E r \in Resources :
        /\ orphan
        /\ compDeleting
        /\ synthesisState = Synthesized
        /\ downstream[r] \in {InSync, Drifted}
        /\ lastSeen[r] = PresentVersion
        /\ status[r].exists /\ ~status[r].deleted

\* C18: a Composition whose CurrentSynthesis is pending is given a UUID in the end,
\* whatever has become of the syntheses of the other Compositions.
C18_PendingIsDispatched ==
    \A c \in Comps : IsPending(comps[c]) ~> ~IsPending(comps[c])

\* C19: a tick whose patch the API server rejects changes no Composition and leaves a
\* requeue scheduled after the cooldown.
C19_ConflictRequeuesAfterCooldown ==
    [][\A n \in Comps :
        (/\ queued
         /\ Cardinality(ActiveIn(cache)) < limit
         /\ n \in PendingIn(cache)
         /\ ~PatchApplies(comps[n])
         /\ ~queued')
            => (comps' = comps /\ requeue' = AfterCooldown)]_vars

\* C20: a tick assigns a UUID only if the limiter has assigned none before or the
\* cooldown has passed since it assigned the last one.
C20_DispatchesAreSpacedByCooldown ==
    [][(\E n \in Comps :
            comps[n].current.uuid = NoUUID /\ comps'[n].current.uuid # NoUUID)
        => (lastDispatch = NoTime \/ now - lastDispatch >= Cooldown)]_vars

\* C21: a Reconcile that makes a call downstream returns Result{Requeue: true} and
\* hands no status to the write buffer; the step that creates, patches or deletes the
\* object leaves no recorded version and no new status function; and a resource
\* without a recorded version is read in full by its next Reconcile.
C21_ModifiedPassInvalidatesVersion ==
    /\ [](\A r \in Resources :
            /\ DownstreamCall(r) # NoCall =>
                    /\ ~StatusWritten(r)
                    /\ \A readiness \in {NoTime} \cup Times :
                            ReconcileResult(r, readiness) = RequeueNow
            /\ lastSeen[r] = NoVersion => GetCurrent(r).hasChanged)
    /\ [][\A r \in Resources :
            (downstream'[r] # downstream[r] /\ downstream'[r] \in {InSync, NoObject}) =>
                /\ lastSeen'[r] = NoVersion
                /\ writeBuffer'[r] = writeBuffer[r]]_vars

\* The object of a Deleted resource whose version had been recorded has been deleted
\* by a Reconcile, which left no recorded version.
C21_DeletedAfterBeingSeen ==
    \E r \in Resources :
        /\ compDeleting
        /\ ~orphan
        /\ status[r].exists /\ ~status[r].deleted
        /\ downstream[r] = NoObject
        /\ lastSeen[r] = NoVersion

\* C22: whenever a Reconcile is about to make a call downstream, the version it leaves
\* recorded if the call fails is the empty one; after a Reconcile whose call failed
\* (the object is as it was and the recorded version has changed) the next Reconcile
\* of the resource reads the object in full.
C22_FailedCallIsRetriedInFull ==
    /\ [](\A r \in Resources :
            DownstreamCall(r) # NoCall => InvalidatedVersion(lastSeen[r]) = NoVersion)
    /\ [][\A r \in Resources :
            (/\ DownstreamCall(r) # NoCall
             /\ downstream'[r] = downstream[r]
             /\ lastSeen'[r] # lastSeen[r])
                => (lastSeen'[r] = NoVersion /\ GetCurrent(r)'.hasChanged)]_vars

\* The delete of an object whose version and status had been recorded has failed: the
\* object is still there, and no version is recorded.
C22_DeleteFailed ==
    \E r \in Resources :
        /\ compDeleting
        /\ ~orphan
        /\ synthesisState = Synthesized
        /\ status[r].exists /\ ~status[r].deleted
        /\ downstream[r] = InSync
        /\ lastSeen[r] = NoVersion

\* C23: the status function of a Reconcile that modified nothing leaves the state
\* {Deleted, Ready, Reconciled: true}, and the write buffer's write of a function
\* leaves the stored state as it is exactly when that state is Reconciled and has the
\* function's Deleted and Ready.
C23_StatusWrittenUnlessEqual ==
    /\ [](\A r \in Resources : \A readiness \in {NoTime} \cup Times :
            StatusWritten(r) =>
                StatusAfter(r, readiness) =
                    [exists |-> TRUE, deleted |-> DeletedOf(r),
                     ready |-> ReadyOf(r, readiness), reconciled |-> TRUE])
    /\ [][\A r \in Resources :
            (writeBuffer[r].queued /\ ~writeBuffer'[r].queued) =>
                /\ status'[r].exists /\ status'[r].reconciled
                /\ status'[r].deleted = writeBuffer[r].deleted
                /\ status'[r].ready = writeBuffer[r].ready
                /\ status'[r] = status[r] <=>
                        /\ status[r].exists
                        /\ status[r].reconciled
                        /\ status[r].deleted = writeBuffer[r].deleted
                        /\ status[r].ready = writeBuffer[r].ready]_vars

\* The function of a Reconcile is waiting in the write buffer for a stored state that
\* has its Deleted and Ready and is not Reconciled.
C23_EqualButNotReconciled ==
    \E r \in Resources :
        /\ writeBuffer[r].queued
        /\ status[r].exists
        /\ ~status[r].reconciled
        /\ status[r].deleted = writeBuffer[r].deleted
        /\ status[r].ready = writeBuffer[r].ready

\* C24, as the spec has it: a Reconcile that reaches its end returns a requeue after
\* the readiness poll interval if the resource is not ready, else a requeue after the
\* ReconcileInterval if one is set, else no requeue.
C24_RequeuePolicy ==
    \A r \in Resources : \A readiness \in {NoTime} \cup Times :
        StatusWritten(r) =>
            ReconcileResult(r, readiness) =
                IF ReadyOf(r, readiness) = NoTime THEN AfterPollInterval
                ELSE IF reconcileInterval[r] THEN AfterReconcileInterval
                ELSE NoRequeue

\* C24, as the code has it: a Reconcile that reaches its end returns a requeue after
\* the readiness poll interval if the resource is not ready, else a requeue after the
\* ReconcileInterval if one is set and the resource is not Deleted, else no requeue.
C24_RequeuePolicyButForDeleted ==
    \A r \in Resources : \A readiness \in {NoTime} \cup Times :
        StatusWritten(r) =>
            ReconcileResult(r, readiness) =
                IF ReadyOf(r, readiness) = NoTime THEN AfterPollInterval
                ELSE IF reconcileInterval[r] /\ ~compDeleting THEN AfterReconcileInterval
                ELSE NoRequeue

\* The Reconcile of a Deleted resource that is ready and has a ReconcileInterval
\* reaches its end.
C24_DeletedWithInterval ==
    \E r \in Resources :
        /\ compDeleting
        /\ reconcileInterval[r]
        /\ StatusWritten(r)
        /\ ReadyOf(r, NoTime) # NoTime

\* C25: the patch type is a function of the resource: a JSON-patch resource gets a JSON
\* patch, which is empty when the object does not need patching; a manifest gets a
\* strategic-merge patch exactly when there is an OpenAPI model for its kind and the
\* kind is not policy/v1 PodDisruptionBudget, and a JSON merge patch otherwise.
C25_PatchTypeSelection ==
    \A r \in Resources :
        /\ patchKind[r] = JSONPatch =>
              /\ PatchType(r) = JSONPatchType
              /\ BuildPatch(r, downstream[r]) =
                     IF downstream[r] = Drifted THEN {Ops} ELSE {}
        /\ patchKind[r] = Manifest =>
              PatchType(r) =
                  IF openAPIModel[r] /\ kind[r] # pdbGVK
                  THEN StrategicMergePatchType
                  ELSE MergePatchType

\* A PodDisruptionBudget manifest whose kind has an OpenAPI model is about to be
\* patched, while another resource is patched with a strategic-merge patch.
C25_BudgetWithModelPatched ==
    \E r, q \in Resources :
        /\ patchKind[r] = Manifest
        /\ openAPIModel[r]
        /\ kind[r] = pdbGVK
        /\ downstream[r] = Drifted
        /\ lastSeen[r] # PresentVersion
        /\ DownstreamCall(r) = PatchCall
        /\ drift[r] = {Data, Labels}
        /\ q # r
        /\ downstream[q] = InSync

\* C26: the merge patch of a manifest that is sent has the resource version, has
\* neither status nor creationTimestamp, and no patch is sent when the resource
\* version is all that is left of it.
C26_MergePatchIsMunged ==
    \A r \in Resources :
        (/\ patchKind[r] = Manifest
         /\ ~compDeleting
         /\ downstream[r] \in {InSync, Drifted}
         /\ GetCurrent(r).hasChanged) =>
            LET built == IF downstream[r] = Drifted THEN drift[r] ELSE {}
                patch == PatchBytes(r, downstream[r])
            IN /\ Status \notin patch
               /\ CreationTimestamp \notin patch
               /\ patch # {} => ResourceVersion \in patch
               /\ built \subseteq {Status, CreationTimestamp} =>
                      DownstreamCall(r) = NoCall

\* The object read in full differs from the manifest in its status and its
\* creationTimestamp only.
C26_OnlyStrippedFieldsDiffer ==
    \E r \in Resources :
        /\ patchKind[r] = Manifest
        /\ downstream[r] = Drifted
        /\ drift[r] = {Status, CreationTimestamp}
        /\ ~Gated(r)
        /\ GetCurrent(r).hasChanged
        /\ lastSeen[r] = PastVersion

\* C27: a merge patch that, status and creationTimestamp stripped, still changes a
\* field is sent downstream, also when the fields it changes are all under metadata.
C27_ChangingPatchIsApplied ==
    \A r \in Resources :
        (/\ patchKind[r] = Manifest
         /\ ~Dropped
         /\ ~CRDGated(r)
         /\ ~Gated(r)
         /\ ~compDeleting
         /\ ~disableUpdates[r]
         /\ downstream[r] = Drifted
         /\ GetCurrent(r).hasChanged
         /\ drift[r] \ {Status, CreationTimestamp} # {}) =>
            DownstreamCall(r) = PatchCall

\* C28: the Deleted a Reconcile hands to the write buffer is true only when the object
\* is absent downstream or has a deletion timestamp.
C28_DeletedOnlyWhenGone ==
    [][\A r \in Resources :
          (/\ writeBuffer'[r] # writeBuffer[r]
           /\ writeBuffer'[r].queued
           /\ writeBuffer'[r].deleted) =>
              downstream[r] \in {NoObject, Terminating}]_vars

\* C29: an error of marshalling or unmarshalling the desired, current or previous
\* state, or of building the patch, is returned as a terminal error.
C29_MarshalErrorsAreTerminal ==
    lastError.site \in
        {"resource.Parse", "json.Marshal(next.Patch)", "prev.Finalize",
         "next.Finalize", "current.MarshalJSON", "CreateThreeWayMergePatch",
         "json.Unmarshal(patch)", "meta.Accessor", "json.Marshal(patchMap)"}
        => lastError.terminal

\* C30: a resource with DisableUpdates is created only when its object is absent,
\* deleted only when it is Deleted, and never patched: an object that differs from
\* the desired state is not brought back to it.
C30_UpdatesDisabledNeverPatched ==
    /\ [](\A r \in Resources :
             disableUpdates[r] =>
                 /\ DownstreamCall(r) # PatchCall
                 /\ DownstreamCall(r) = CreateCall => downstream[r] = NoObject
                 /\ DownstreamCall(r) = DeleteCall => compDeleting)
    /\ [][\A r \in Resources :
             (disableUpdates[r] /\ downstream[r] = Drifted) =>
                 downstream'[r] # InSync]_vars

\* The object of a resource with DisableUpdates was changed by another hand, and the
\* Reconcile now due reads it in full.
C30_DriftedWithUpdatesDisabled ==
    \E r \in Resources :
        /\ disableUpdates[r]
        /\ ~compDeleting
        /\ ~Gated(r)
        /\ downstream[r] = Drifted
        /\ lastSeen[r] = PastVersion
        /\ GetCurrent(r).hasChanged

\* C31: a Composition whose Synthesizer the watchdog cannot fetch is counted in
\* neither gauge, whatever its age: the gauges a Reconcile sets count Compositions
\* whose Synthesizer was fetched only.
C31_UnfetchedSynthesizerNotCounted ==
    [][<<inputsMissing, notInLockstepCount>>' # <<inputsMissing, notInLockstepCount>> =>
          /\ inputsMissing' =
                 Cardinality({c \in Comps :
                     synthesizerFound[c] /\ ~inputsExist[c] /\ now - 1 > Threshold})
          /\ notInLockstepCount' =
                 Cardinality({c \in Comps :
                     /\ synthesizerFound[c]
                     /\ inputsOutOfLockstep[c]
                     /\ now - 1 > Threshold})]_vars

====
